---- MODULE Spec2Model ----
(***************************************************************************)
(* Model of helper-git's interactive status browser: src/status.rs (the    *)
(* session loop of `status`) and src/status/diff.rs (`show_file_diff`).    *)
(* Indices are 0-based as in the source; files[i] of the source is         *)
(* files[i + 1] here.  Option<T> is a sequence: None is <<>>, Some(x) is   *)
(* <<x>>.  Result<T> is a record with an `ok` field.                       *)
(***************************************************************************)
EXTENDS Integers, Sequences, FiniteSets, TLC

VARIABLES
    pc,             \* position in `status`
    raw_mode,       \* terminal is in raw mode
    alt_screen,     \* terminal shows the alternate screen
    result,         \* what `status` returned: "running", "ok" or "err"
    statuses,       \* the entries repo.statuses returned
    items,          \* Vec<ListItem>: the rows of the left panel
    files,          \* Vec<String>: the paths used for diff lookups
    selected,       \* list_state.selected(): Option<usize>
    focus,          \* Focus::Left or Focus::Right
    diff_scroll,    \* u16
    current_diff,   \* Vec<Line>
    last_selected,  \* Option<usize>
    event,          \* the event returned by the last event::read()
    loop_started,   \* history: the main loop has been entered
    diff_calls,     \* history: calls of show_file_diff so far
    last_call,      \* history: the last show_file_diff call,
                    \*   <<index, ok, lines, path, answers of the environment>>
    sel_changes,    \* history: input events that changed list_state.selected()
    disable_calls,  \* history: calls of disable_raw_mode so far
    leave_calls     \* history: executions of LeaveAlternateScreen so far

vars == <<pc, raw_mode, alt_screen, result, statuses, items, files, selected, focus,
          diff_scroll, current_diff, last_selected, event, loop_started,
          diff_calls, last_call, sel_changes, disable_calls, leave_calls>>

----------------------------------------------------------------------------
(* Bounds of the model *)

MaxEntries == 2

MaxScroll == 2

MaxSelChanges == 3

(* u16::MAX, the largest value of diff_scroll *)
U16Max == 65535

----------------------------------------------------------------------------
(* Option and Result *)

None == <<>>

Some(x) == <<x>>

Ok(v) == [ok |-> TRUE, val |-> v, err |-> ""]

Err(e) == [ok |-> FALSE, val |-> <<>>, err |-> e]

----------------------------------------------------------------------------
(* Integer helpers of the standard library *)

(* Variant: the subtraction wraps around the width of u16 *)
WrappingSub(x, y) == (x - y) % (U16Max + 1)

SaturatingSub(x, y) == IF x < y THEN 0 ELSE x - y

(* Variant: the addition wraps around the width of u16 *)
WrappingAdd(x, y) == (x + y) % (U16Max + 1)

SaturatingAdd(x, y) == IF x + y > U16Max THEN U16Max ELSE x + y

----------------------------------------------------------------------------
(* Status collection: src/status.rs lines 36-73 *)

PathNames == <<"a.txt", "b.rs", "c.md", "d.toml">>

(* Variant: the arms for WT_MODIFIED and WT_NEW are in the other order *)
ClassifyModifiedFirst(s) ==
    IF "WT_MODIFIED" \in s THEN <<"Modified", "Yellow">>
    ELSE IF "WT_NEW" \in s THEN <<"New", "Red">>
    ELSE IF "INDEX_NEW" \in s \/ "WT_RENAMED" \in s \/ "INDEX_MODIFIED" \in s
         THEN <<"Added", "Green">>
    ELSE <<>>

(* The match of lines 45-55: <<label, color>>, or <<>> for `continue` *)
Classify(s) ==
    IF "WT_NEW" \in s THEN <<"New", "Red">>
    ELSE IF "WT_MODIFIED" \in s THEN <<"Modified", "Yellow">>
    ELSE IF "INDEX_NEW" \in s \/ "WT_RENAMED" \in s \/ "INDEX_MODIFIED" \in s
         THEN <<"Added", "Green">>
    ELSE <<>>

(* The row built at lines 59-68: the spans of one list item *)
ItemOf(label, color, path) == <<label, color, " | ", path>>

Placeholder == <<"Working tree clean">>

RECURSIVE CollectFromPushEarly(_, _, _)
(* Variant: the path is pushed to files before the entry is classified *)
CollectFromPushEarly(entries, k, acc) ==
    IF k > Len(entries) THEN acc
    ELSE LET e == entries[k]
             c == Classify(e.status)
         IN  IF e.path = None
             THEN CollectFromPushEarly(entries, k + 1, acc)
             ELSE IF c = <<>>
             THEN CollectFromPushEarly(entries, k + 1,
                     [items |-> acc.items, files |-> Append(acc.files, e.path[1])])
             ELSE CollectFromPushEarly(entries, k + 1,
                     [items |-> Append(acc.items, ItemOf(c[1], c[2], e.path[1])),
                      files |-> Append(acc.files, e.path[1])])

RECURSIVE CollectFrom(_, _, _)
(* The loop of lines 39-69 over entries[k..], given the vectors so far *)
CollectFrom(entries, k, acc) ==
    IF k > Len(entries) THEN acc
    ELSE LET e == entries[k]
             c == Classify(e.status)
         IN  IF e.path = None \/ c = <<>>
             THEN CollectFrom(entries, k + 1, acc)
             ELSE CollectFrom(entries, k + 1,
                     [items |-> Append(acc.items, ItemOf(c[1], c[2], e.path[1])),
                      files |-> Append(acc.files, e.path[1])])

(* Variant: the placeholder row is pushed to the lookup paths as well *)
CollectWithPlaceholderPath(entries) ==
    LET r == CollectFrom(entries, 1, [items |-> <<>>, files |-> <<>>])
    IN  IF r.items = <<>>
        THEN [items |-> <<Placeholder>>, files |-> <<Placeholder[1]>>]
        ELSE r

(* Lines 36-73: the two vectors, with the placeholder row when empty *)
Collect(entries) ==
    LET r == CollectFrom(entries, 1, [items |-> <<>>, files |-> <<>>])
    IN  [items |-> IF r.items = <<>> THEN <<Placeholder>> ELSE r.items,
         files |-> r.files]

----------------------------------------------------------------------------
(* Diff rendering: src/status/diff.rs *)

(* A Line is <<color, pieces of its text>> *)
NewFileHeader(path) == <<"Blue", <<"New file: ", path, "\n">>>>

(* Variant: the line of a new file is shown without its "+" *)
AddedFileLineNoPrefix(line) == <<"Green", <<line, "\n">>>>

AddedFileLine(line) == <<"Green", <<"+", line, "\n">>>>

NoChangesLine == <<"None", <<"No changes">>>>

ErrorLine(e) == <<"None", <<"Error: ", e>>>>

(* Variant: the colors of added and removed lines are exchanged *)
OriginColorSwapped(origin) ==
    IF origin = "+" THEN "Red"
    ELSE IF origin = "-" THEN "Green"
    ELSE IF origin = "F" THEN "Blue"
    ELSE "None"

(* The match on line.origin() of lines 53-58 *)
OriginColor(origin) ==
    IF origin = "+" THEN "Green"
    ELSE IF origin = "-" THEN "Red"
    ELSE IF origin = "F" THEN "Blue"
    ELSE "None"

(* Content bytes that are not valid UTF-8 *)
InvalidUtf8 == "\\xff"

(* std::str::from_utf8(line.content()).unwrap_or(""), lines 49-51 *)
FromUtf8OrEmpty(bytes) == IF bytes = InvalidUtf8 THEN "" ELSE bytes

PatchLine(dl) == <<OriginColor(dl[1]), <<FromUtf8OrEmpty(dl[2])>>>>

(* show_file_diff(repo, path), where w is what the repository and the      *)
(* file system answer for this call: w.status is the result of             *)
(* status_file, w.content of read_to_string (as lines), w.patch of         *)
(* diff_tree_to_workdir_with_index and print (as <<origin, content>>).     *)
ShowFileDiff(path, w) ==
    IF ~w.status.ok THEN Err(w.status.err)
    ELSE IF "WT_NEW" \in w.status.val
    THEN IF ~w.content.ok THEN Err(w.content.err)
         ELSE Ok(<<NewFileHeader(path)>> \o
                 [i \in 1..Len(w.content.val) |-> AddedFileLine(w.content.val[i])])
    ELSE IF ~w.patch.ok THEN Err(w.patch.err)
    ELSE LET lines == [i \in 1..Len(w.patch.val) |-> PatchLine(w.patch.val[i])]
         IN  Ok(IF lines = <<>> THEN <<NoChangesLine>> ELSE lines)

(* Variant: a failed computation leaves the panel empty *)
UnwrapOrEmpty(r) == IF r.ok THEN r.val ELSE <<>>

(* .unwrap_or_else(|e| vec![Line::from(format!("Error: {}", e))]), line 91 *)
UnwrapOrError(r) == IF r.ok THEN r.val ELSE <<ErrorLine(r.err)>>

(* Variant: the diff is computed for the first selection only *)
NeedsRecomputeOnce(sel, last) == last = None

(* Variant: the diff is computed on every iteration *)
NeedsRecomputeAlways(sel, last) == TRUE

(* The guard of line 88 *)
NeedsRecompute(sel, last) == Some(sel) # last

(* files.get(selected), line 89 *)
FilesGet(fs, i) == IF i < Len(fs) THEN Some(fs[i + 1]) ELSE None

(* Variant: tab always moves the focus to the diff panel *)
FocusRight(f) == "Right"

(* Lines 183-187: the focus after tab *)
ToggleFocus(f) == IF f = "Left" THEN "Right" ELSE "Left"

(* Variant: the list state is left at its default, with nothing selected *)
SelectNothing == None

(* Lines 75-76: ListState::default() and select(Some(0)) *)
InitialSelection == Some(0)

(* Variant: up/k moves without the floor at index 0 *)
MoveUpNoFloor(sel) == IF sel # None THEN Some(sel[1] - 1) ELSE sel

(* Variant: down/j moves without the ceiling at the last row *)
MoveDownNoCeiling(sel, n) == IF sel # None THEN Some(sel[1] + 1) ELSE sel

(* Lines 192-196: the selection after up/k in the list panel *)
MoveUp(sel) ==
    IF sel # None /\ sel[1] > 0 THEN Some(sel[1] - 1) ELSE sel

(* Lines 205-209: the selection after down/j in the list panel *)
MoveDown(sel, n) ==
    IF sel # None /\ sel[1] < SaturatingSub(n, 1) THEN Some(sel[1] + 1) ELSE sel

----------------------------------------------------------------------------
(* Inputs the environment can supply *)

NoPatch == Ok(<<>>)

NoContent == Ok(<<>>)

World(st, content, patch) == [status |-> st, content |-> content, patch |-> patch]

OneLineChange == <<<<"F", "diff --git">>, <<"H", "@@ -1 +1 @@">>, <<"-", "foo">>, <<"+", "bar">>>>

AllWorlds ==
    { World(Err("status"), NoContent, NoPatch),
      World(Ok({"WT_NEW"}), Err("read"), NoPatch),
      World(Ok({"WT_NEW"}), Ok(<<"x", "y">>), NoPatch),
      World(Ok({"WT_MODIFIED"}), NoContent, Err("diff")),
      World(Ok({"WT_MODIFIED"}), NoContent, Ok(<<>>)),
      World(Ok({"WT_MODIFIED"}), NoContent, Ok(OneLineChange)),
      World(Ok({"INDEX_MODIFIED"}), NoContent, Ok(<<<<" ", InvalidUtf8>>>>)) }

QuitKeys == {"q", "Esc"}

TabKeys == {"Tab"}

UpKeys == {"Up", "k"}

DownKeys == {"Down", "j"}

OtherKeys == {"Enter", "Home", "End", "g", "G", "x"}

NonKeyEvents == {"Resize", "Mouse"}

(* What a status entry can look like: its flags, or NoPath for an entry    *)
(* whose path() is None                                                    *)
NoPath == {"NOPATH"}

EntryKinds == { {"WT_NEW"}, {"WT_MODIFIED"}, {"INDEX_NEW"}, {"INDEX_DELETED"}, NoPath }

EntriesOf(kinds) ==
    [k \in 1..Len(kinds) |->
        [path |-> IF kinds[k] = NoPath THEN None ELSE Some(PathNames[k]),
         status |-> kinds[k] \ NoPath]]

SeqsUpTo(S, n) == UNION { [1..m -> S] : m \in 0..n }

AllStatuses == { EntriesOf(ks) : ks \in SeqsUpTo(EntryKinds, MaxEntries) }

(* The inputs of the full model *)
Full ==
    [statuses |-> AllStatuses,
     worlds |-> AllWorlds,
     keys |-> QuitKeys \cup TabKeys \cup UpKeys \cup DownKeys \cup OtherKeys,
     nonkeys |-> NonKeyEvents,
     scrollCap |-> MaxScroll]

(* The inputs of the long-scroll model: one modified file, one key per     *)
(* handler, and no cap on the scroll offset below the width of u16         *)
Wide ==
    [statuses |-> { EntriesOf(<<{"WT_MODIFIED"}>>) },
     worlds |-> { World(Ok({"WT_MODIFIED"}), NoContent, Ok(OneLineChange)) },
     keys |-> {"q", "Tab", "k", "j", "Enter"},
     nonkeys |-> {"Resize"},
     scrollCap |-> U16Max + 1]

(* The flags of git2::Status the classification reads, and three it does  *)
(* not read                                                                *)
Flags == {"WT_NEW", "WT_MODIFIED", "INDEX_NEW", "WT_RENAMED", "INDEX_MODIFIED",
          "INDEX_DELETED", "WT_DELETED", "WT_TYPECHANGE"}

(* The inputs of the classification model: one entry with any set of       *)
(* flags, one diff answer, one key per handler                             *)
AnyFlags ==
    [statuses |-> { EntriesOf(<<fs>>) : fs \in SUBSET Flags },
     worlds |-> { World(Ok({"WT_MODIFIED"}), NoContent, Ok(OneLineChange)) },
     keys |-> {"q", "Tab", "k", "j", "Enter"},
     nonkeys |-> {"Resize"},
     scrollCap |-> MaxScroll]

FileContents == { <<>>, <<"x">>, <<"x", "y">>, <<"y", "x">>, <<"x", "x">> }

PatchStreams ==
    { <<>>, OneLineChange, <<<<" ", InvalidUtf8>>>>,
      <<<<"+", "bar">>, <<"-", "foo">>>>,
      <<<<"+", "bar">>, <<"+", "bar">>>> }

(* The inputs of the diff model: a new and a modified file, any answer of  *)
(* the repository and the file system, one key per handler                 *)
AnyDiff ==
    [statuses |-> { EntriesOf(<<{"WT_NEW"}, {"WT_MODIFIED"}>>) },
     worlds |-> { World(st, c, p) :
                    st \in {Err("status"), Ok({"WT_NEW"}), Ok({"WT_NEW", "INDEX_MODIFIED"}),
                            Ok({"WT_MODIFIED"}), Ok({"INDEX_NEW"}), Ok({})},
                    c \in {Err("read")} \cup { Ok(x) : x \in FileContents },
                    p \in {Err("diff")} \cup { Ok(x) : x \in PatchStreams } },
     keys |-> {"q", "Tab", "k", "j", "Enter"},
     nonkeys |-> {"Resize"},
     scrollCap |-> MaxScroll]

----------------------------------------------------------------------------
(* The state machine of `status` *)

Init ==
    /\ pc = "enable_raw"
    /\ raw_mode = FALSE
    /\ alt_screen = FALSE
    /\ result = "running"
    /\ statuses = <<>>
    /\ items = <<>>
    /\ files = <<>>
    /\ selected = None
    /\ focus = "Left"
    /\ diff_scroll = 0
    /\ current_diff = <<>>
    /\ last_selected = None
    /\ event = "none"
    /\ loop_started = FALSE
    /\ diff_calls = 0
    /\ last_call = <<>>
    /\ sel_changes = 0
    /\ disable_calls = 0
    /\ leave_calls = 0

(* A `?` that propagates an error: status returns Err *)
ReturnErr ==
    /\ pc' = "done"
    /\ result' = "err"

session == <<statuses, items, files, selected, focus, diff_scroll, current_diff,
             last_selected, event, loop_started, diff_calls, last_call,
             sel_changes>>

(* Line 23: enable_raw_mode()? *)
EnableRawMode ==
    /\ pc = "enable_raw"
    /\ \/ /\ raw_mode' = TRUE
          /\ pc' = "enter_alt"
          /\ UNCHANGED result
       \/ /\ ReturnErr
          /\ UNCHANGED raw_mode
    /\ UNCHANGED <<alt_screen, session, disable_calls, leave_calls>>

(* Line 24: stdout().execute(EnterAlternateScreen)? *)
EnterAlternateScreen ==
    /\ pc = "enter_alt"
    /\ \/ /\ alt_screen' = TRUE
          /\ pc' = "new_terminal"
          /\ UNCHANGED result
       \/ /\ ReturnErr
          /\ UNCHANGED alt_screen
    /\ UNCHANGED <<raw_mode, session, disable_calls, leave_calls>>

(* Lines 26-27: Terminal::new(backend)? *)
NewTerminal ==
    /\ pc = "new_terminal"
    /\ \/ /\ pc' = "load_status"
          /\ UNCHANGED result
       \/ ReturnErr
    /\ UNCHANGED <<raw_mode, alt_screen, session, disable_calls, leave_calls>>

(* Lines 29-82: repo.statuses(..)?, the two vectors and the UI state *)
LoadStatus(in) ==
    /\ pc = "load_status"
    /\ \/ \E entries \in in.statuses :
            LET r == Collect(entries) IN
            /\ statuses' = entries
            /\ items' = r.items
            /\ files' = r.files
            /\ selected' = InitialSelection
            /\ focus' = "Left"
            /\ diff_scroll' = 0
            /\ current_diff' = <<>>
            /\ last_selected' = None
            /\ loop_started' = TRUE
            /\ pc' = "loop"
            /\ UNCHANGED <<result, event, diff_calls, last_call, sel_changes>>
       \/ /\ ReturnErr
          /\ UNCHANGED session
    /\ UNCHANGED <<raw_mode, alt_screen, disable_calls, leave_calls>>

(* Lines 87-96: recompute the diff if the selection changed *)
Recompute(in) ==
    /\ pc = "loop"
    /\ IF selected # None /\ NeedsRecompute(selected[1], last_selected)
       THEN /\ IF FilesGet(files, selected[1]) # None
               THEN \E w \in in.worlds :
                      LET r == ShowFileDiff(FilesGet(files, selected[1])[1], w) IN
                      /\ current_diff' = UnwrapOrError(r)
                      /\ diff_calls' = diff_calls + 1
                      /\ last_call' = <<selected[1], r.ok, UnwrapOrError(r),
                                        FilesGet(files, selected[1])[1], w>>
               ELSE UNCHANGED <<current_diff, diff_calls, last_call>>
            /\ diff_scroll' = 0
            /\ last_selected' = Some(selected[1])
       ELSE UNCHANGED <<current_diff, diff_calls, last_call, diff_scroll, last_selected>>
    /\ pc' = "draw"
    /\ UNCHANGED <<raw_mode, alt_screen, result, statuses, items, files, selected, focus,
                   event, loop_started, sel_changes, disable_calls, leave_calls>>

(* Lines 113-175: terminal.draw(..)?.  The closure reads the session      *)
(* state; list_state is passed mutably, and the selection it holds is      *)
(* always a row of items, so rendering leaves it as it is.                 *)
DrawFrame ==
    /\ pc = "draw"
    /\ \/ /\ pc' = "read"
          /\ UNCHANGED result
       \/ ReturnErr
    /\ UNCHANGED <<raw_mode, alt_screen, session, disable_calls, leave_calls>>

(* Line 178: event::read()? fails *)
ReadFail ==
    /\ pc = "read"
    /\ event' = "error"
    /\ ReturnErr
    /\ UNCHANGED <<raw_mode, alt_screen, statuses, items, files, selected, focus,
                   diff_scroll, current_diff, last_selected, loop_started,
                   diff_calls, last_call, sel_changes, disable_calls, leave_calls>>

(* Line 178: the event is not a key event *)
NonKey(in) ==
    /\ pc = "read"
    /\ \E e \in in.nonkeys : event' = e
    /\ pc' = "loop"
    /\ UNCHANGED <<raw_mode, alt_screen, result, statuses, items, files, selected, focus,
                   diff_scroll, current_diff, last_selected, loop_started,
                   diff_calls, last_call, sel_changes, disable_calls, leave_calls>>

(* Line 180: q or Esc breaks out of the loop *)
KeyQuit(in) ==
    /\ pc = "read"
    /\ \E e \in in.keys \cap QuitKeys : event' = e
    /\ pc' = "disable_raw"
    /\ UNCHANGED <<raw_mode, alt_screen, result, statuses, items, files, selected, focus,
                   diff_scroll, current_diff, last_selected, loop_started,
                   diff_calls, last_call, sel_changes, disable_calls, leave_calls>>

(* Lines 182-188 *)
KeyTab(in) ==
    /\ pc = "read"
    /\ \E e \in in.keys \cap TabKeys : event' = e
    /\ focus' = ToggleFocus(focus)
    /\ pc' = "loop"
    /\ UNCHANGED <<raw_mode, alt_screen, result, statuses, items, files, selected,
                   diff_scroll, current_diff, last_selected, loop_started,
                   diff_calls, last_call, sel_changes, disable_calls, leave_calls>>

(* Lines 190-201 *)
KeyUp(in) ==
    /\ pc = "read"
    /\ \E e \in in.keys \cap UpKeys : event' = e
    /\ IF focus = "Left"
       THEN /\ IF MoveUp(selected) # selected
               THEN /\ sel_changes < MaxSelChanges
                    /\ selected' = MoveUp(selected)
                    /\ sel_changes' = sel_changes + 1
               ELSE UNCHANGED <<selected, sel_changes>>
            /\ UNCHANGED diff_scroll
       ELSE /\ diff_scroll' = SaturatingSub(diff_scroll, 1)
            /\ UNCHANGED <<selected, sel_changes>>
    /\ pc' = "loop"
    /\ UNCHANGED <<raw_mode, alt_screen, result, statuses, items, files, focus,
                   current_diff, last_selected, loop_started,
                   diff_calls, last_call, disable_calls, leave_calls>>

(* Lines 203-214 *)
KeyDown(in) ==
    /\ pc = "read"
    /\ \E e \in in.keys \cap DownKeys : event' = e
    /\ IF focus = "Left"
       THEN /\ IF MoveDown(selected, Len(items)) # selected
               THEN /\ sel_changes < MaxSelChanges
                    /\ selected' = MoveDown(selected, Len(items))
                    /\ sel_changes' = sel_changes + 1
               ELSE UNCHANGED <<selected, sel_changes>>
            /\ UNCHANGED diff_scroll
       ELSE /\ diff_scroll < in.scrollCap
            /\ diff_scroll' = SaturatingAdd(diff_scroll, 1)
            /\ UNCHANGED <<selected, sel_changes>>
    /\ pc' = "loop"
    /\ UNCHANGED <<raw_mode, alt_screen, result, statuses, items, files, focus,
                   current_diff, last_selected, loop_started,
                   diff_calls, last_call, disable_calls, leave_calls>>

(* Variant: Home/g and End/G are bound as in a single-list browser *)
KeyOtherHomeEnd(in) ==
    /\ pc = "read"
    /\ \E e \in in.keys \cap OtherKeys :
          /\ event' = e
          /\ selected' = IF e \in {"Home", "g"} THEN Some(0)
                         ELSE IF e \in {"End", "G"}
                         THEN Some(SaturatingSub(Len(items), 1))
                         ELSE selected
    /\ pc' = "loop"
    /\ UNCHANGED <<raw_mode, alt_screen, result, statuses, items, files, focus,
                   diff_scroll, current_diff, last_selected, loop_started,
                   diff_calls, last_call, sel_changes, disable_calls, leave_calls>>

(* Variant: a key without a handler ends the loop *)
KeyOtherBreaks(in) ==
    /\ pc = "read"
    /\ \E e \in in.keys \cap OtherKeys : event' = e
    /\ pc' = "disable_raw"
    /\ UNCHANGED <<raw_mode, alt_screen, result, statuses, items, files, selected, focus,
                   diff_scroll, current_diff, last_selected, loop_started,
                   diff_calls, last_call, sel_changes, disable_calls, leave_calls>>

(* Line 216: any other key *)
KeyOther(in) ==
    /\ pc = "read"
    /\ \E e \in in.keys \cap OtherKeys : event' = e
    /\ pc' = "loop"
    /\ UNCHANGED <<raw_mode, alt_screen, result, statuses, items, files, selected, focus,
                   diff_scroll, current_diff, last_selected, loop_started,
                   diff_calls, last_call, sel_changes, disable_calls, leave_calls>>

(* Line 221: disable_raw_mode()? *)
DisableRawMode ==
    /\ pc = "disable_raw"
    /\ disable_calls' = disable_calls + 1
    /\ \/ /\ raw_mode' = FALSE
          /\ pc' = "leave_alt"
          /\ UNCHANGED result
       \/ /\ ReturnErr
          /\ UNCHANGED raw_mode
    /\ UNCHANGED <<alt_screen, session, leave_calls>>

(* Lines 222-223: stdout().execute(LeaveAlternateScreen)?; Ok(()) *)
LeaveAlternateScreen ==
    /\ pc = "leave_alt"
    /\ leave_calls' = leave_calls + 1
    /\ \/ /\ alt_screen' = FALSE
          /\ pc' = "done"
          /\ result' = "ok"
       \/ /\ ReturnErr
          /\ UNCHANGED alt_screen
    /\ UNCHANGED <<raw_mode, session, disable_calls>>

Step(in) ==
    \/ EnableRawMode
    \/ EnterAlternateScreen
    \/ NewTerminal
    \/ LoadStatus(in)
    \/ Recompute(in)
    \/ DrawFrame
    \/ ReadFail
    \/ NonKey(in)
    \/ KeyQuit(in)
    \/ KeyTab(in)
    \/ KeyUp(in)
    \/ KeyDown(in)
    \/ KeyOther(in)
    \/ DisableRawMode
    \/ LeaveAlternateScreen

Next == Step(Full)

Spec == Init /\ [][Next]_vars

NextWide == Step(Wide)

SpecWide == Init /\ [][NextWide]_vars

NextFlags == Step(AnyFlags)

SpecFlags == Init /\ [][NextFlags]_vars

NextDiff == Step(AnyDiff)

SpecDiff == Init /\ [][NextDiff]_vars

----------------------------------------------------------------------------
(* Properties *)

(* A step that handled the key read from the terminal, the key being in ks *)
Pressed(ks) == pc = "read" /\ pc' = "loop" /\ event' \in ks

NavKeys == UpKeys \cup DownKeys

InRange(sel) == sel # None /\ sel[1] \in 0..(Len(files) - 1)

(* C1: whenever a frame is about to be drawn for a non-empty file list,    *)
(* last_selected equals the selection and current_diff is the value of the *)
(* last show_file_diff call, which was made for the selected index.        *)
C1_DiffMatchesSelection ==
    (pc = "draw" /\ files # <<>>) =>
        /\ InRange(selected)
        /\ last_selected = selected
        /\ last_call # <<>>
        /\ last_call[1] = selected[1]
        /\ current_diff = last_call[3]

(* A frame is about to be drawn for the second file, reached by a move *)
C1_Witness ==
    /\ pc = "draw"
    /\ Len(files) = 2
    /\ selected = Some(1)
    /\ sel_changes = 1
    /\ diff_calls = 2
    /\ last_call[1] = 1

(* C2 as stated: once the iteration's recompute step is over, the number   *)
(* of diff computations is one plus the number of input events that        *)
(* changed the selection.                                                  *)
C2_CallsAreOnePlusChanges ==
    (loop_started /\ pc # "loop") => diff_calls = 1 + sel_changes

(* C2 amended: for a non-empty file list the number of diff computations   *)
(* is one plus the number of input events that changed the selection; for  *)
(* an empty file list it is zero.                                          *)
C2_CallsFollowSelectionChanges ==
    (loop_started /\ pc # "loop") =>
        /\ files # <<>> => diff_calls = 1 + sel_changes
        /\ files = <<>> => diff_calls = 0

(* Keys that changed nothing were read after two moves; still 3 calls *)
C2_Witness ==
    /\ pc = "read"
    /\ Len(files) = 2
    /\ sel_changes = 2
    /\ diff_calls = 3
    /\ event \in TabKeys \cup OtherKeys \cup NonKeyEvents
    /\ selected = Some(0)

(* C3: when status returns after the loop has started, disable_raw_mode    *)
(* and LeaveAlternateScreen have each run exactly once.                    *)
C3_RestoredOnceOnExit ==
    (pc = "done" /\ loop_started) => (disable_calls = 1 /\ leave_calls = 1)

(* C4: when status returns an error before the loop has started, the       *)
(* terminal is neither in raw mode nor on the alternate screen.            *)
C4_NoPartialUiOnStartupFailure ==
    (pc = "done" /\ ~loop_started /\ result = "err") =>
        (~raw_mode /\ ~alt_screen)

(* C5: for a non-empty file list the selection stays within                *)
(* 0..len(files)-1; in the list panel up/k at index 0 and down/j at the    *)
(* last index leave it unchanged, and otherwise they move it by exactly 1. *)
C5_SelectionStaysInRange ==
    [][(loop_started /\ files # <<>>) =>
          /\ InRange(selected)
          /\ InRange(selected')
          /\ (Pressed(UpKeys) /\ focus = "Left") =>
                selected'[1] = (IF selected[1] = 0 THEN 0 ELSE selected[1] - 1)
          /\ (Pressed(DownKeys) /\ focus = "Left") =>
                selected'[1] = (IF selected[1] = Len(files) - 1
                                THEN selected[1] ELSE selected[1] + 1)]_vars

(* down/j was handled in the list panel at the last index of two files:    *)
(* the selection did not move, so last_selected still equals it            *)
C5_Witness ==
    /\ pc = "loop"
    /\ event \in DownKeys
    /\ focus = "Left"
    /\ Len(files) = 2
    /\ selected = Some(1)
    /\ last_selected = selected
    /\ sel_changes = 1

Unclassifiable(e) == e.path = None \/ Classify(e.status) = <<>>

(* C6: when no entry of the enumeration is classifiable, the list holds    *)
(* exactly the placeholder row, files is empty and show_file_diff is never *)
(* called.                                                                 *)
C6_CleanTreeNeverDiffs ==
    (loop_started /\ \A k \in 1..Len(statuses) : Unclassifiable(statuses[k])) =>
        /\ items = <<Placeholder>>
        /\ Len(files) = 0
        /\ diff_calls = 0
        /\ last_call = <<>>
        /\ current_diff = <<>>

(* A session on unclassifiable entries has read navigation keys and quit *)
C6_Witness ==
    /\ pc = "done"
    /\ result = "ok"
    /\ Len(statuses) = 2
    /\ \A k \in 1..Len(statuses) : Unclassifiable(statuses[k])
    /\ focus = "Right"
    /\ diff_scroll > 0

(* C7 as stated: with an empty file list a navigation key leaves           *)
(* selected, diff_scroll, current_diff and last_selected unchanged.        *)
C7_NavigationIsNoOpWhenEmpty ==
    [][(files = <<>> /\ Pressed(NavKeys)) =>
          UNCHANGED <<selected, diff_scroll, current_diff, last_selected>>]_vars

(* C7 amended: with an empty file list a navigation key leaves selected,   *)
(* current_diff and last_selected unchanged, and leaves diff_scroll        *)
(* unchanged while the focus is on the list panel; with the focus on the   *)
(* diff panel it scrolls as for a non-empty list.                          *)
C7_NavigationKeepsSelectionWhenEmpty ==
    [][(files = <<>> /\ Pressed(NavKeys)) =>
          /\ UNCHANGED <<selected, current_diff, last_selected>>
          /\ focus = "Left" => UNCHANGED diff_scroll
          /\ (focus = "Right" /\ event' \in DownKeys) =>
                diff_scroll' = (IF diff_scroll < U16Max THEN diff_scroll + 1 ELSE U16Max)
          /\ (focus = "Right" /\ event' \in UpKeys) =>
                diff_scroll' = (IF diff_scroll = 0 THEN 0 ELSE diff_scroll - 1)]_vars

(* A navigation key was handled in the list panel of an empty list *)
C7_Witness ==
    /\ pc = "loop"
    /\ loop_started
    /\ files = <<>>
    /\ event \in NavKeys
    /\ focus = "Left"
    /\ selected = Some(0)
    /\ last_selected = Some(0)

LastCallFailed == last_call # <<>> /\ ~last_call[2]

IsErrorLines(d) == Len(d) = 1 /\ d[1][2][1] = "Error: "

(* C8: a failed diff computation does not end the loop: the step that made *)
(* it goes on to draw, current_diff is one line starting with "Error: "    *)
(* and last_selected is the selection; the following iterations do not     *)
(* repeat it, and quit, tab and the list moves act as usual.               *)
C8_DiffFailureIsDisplayed ==
    [][/\ (pc = "loop" /\ diff_calls' # diff_calls /\ ~last_call'[2]) =>
             /\ pc' = "draw"
             /\ result' = "running"
             /\ IsErrorLines(current_diff')
             /\ last_selected' = selected'
       /\ (LastCallFailed /\ last_selected = selected /\ pc = "loop") =>
             /\ diff_calls' = diff_calls
             /\ current_diff' = current_diff
             /\ IsErrorLines(current_diff')
       /\ (LastCallFailed /\ pc = "read" /\ event' \in QuitKeys) =>
             pc' = "disable_raw"
       /\ (LastCallFailed /\ Pressed(TabKeys)) => focus' # focus
       /\ (LastCallFailed /\ Pressed(UpKeys) /\ focus = "Left") =>
             selected'[1] = (IF selected[1] = 0 THEN 0 ELSE selected[1] - 1)
       /\ (LastCallFailed /\ Pressed(DownKeys) /\ focus = "Left") =>
             selected'[1] = (IF selected[1] = Len(files) - 1
                             THEN selected[1] ELSE selected[1] + 1)]_vars

(* The diff of the second file failed, and a tab was handled after it *)
C8_Witness ==
    /\ pc = "draw"
    /\ LastCallFailed
    /\ last_call[1] = 1
    /\ current_diff = <<ErrorLine("read")>>
    /\ event \in TabKeys
    /\ focus = "Right"
    /\ last_selected = Some(1)

(* C9: in the diff panel up/k sets diff_scroll to max(diff_scroll - 1, 0); *)
(* the offset never leaves 0..u16::MAX and never grows by it.              *)
C9_ScrollUpSaturates ==
    [][(Pressed(UpKeys) /\ focus = "Right") =>
          /\ diff_scroll' = (IF diff_scroll = 0 THEN 0 ELSE diff_scroll - 1)
          /\ diff_scroll' \in 0..U16Max
          /\ diff_scroll' <= diff_scroll]_vars

(* up/k was handled in the diff panel and the offset is 0 *)
C9_Witness ==
    /\ pc = "read"
    /\ event \in UpKeys
    /\ focus = "Right"
    /\ diff_scroll = 0
    /\ last_selected = selected
    /\ files # <<>>

(* C10 as stated: in the diff panel every down/j strictly increases        *)
(* diff_scroll.                                                            *)
C10_ScrollDownStrictlyIncreases ==
    [][(Pressed(DownKeys) /\ focus = "Right") => diff_scroll' > diff_scroll]_vars

(* C10 amended: in the diff panel down/j sets diff_scroll to               *)
(* min(diff_scroll + 1, u16::MAX): it strictly increases the offset below  *)
(* u16::MAX, leaves it at u16::MAX, and never wraps to a smaller value.    *)
C10_ScrollDownSaturates ==
    [][(Pressed(DownKeys) /\ focus = "Right") =>
          /\ diff_scroll' = (IF diff_scroll < U16Max THEN diff_scroll + 1 ELSE U16Max)
          /\ diff_scroll' >= diff_scroll
          /\ diff_scroll' \in 0..U16Max]_vars

(* down/j was handled in the diff panel and the offset is at u16::MAX *)
C10_Witness ==
    /\ pc = "loop"
    /\ event \in DownKeys
    /\ focus = "Right"
    /\ diff_scroll = U16Max

(* The category the classification policy gives a set of flags: New if it  *)
(* is new in the working tree, else Modified if modified in the working    *)
(* tree, else Added if new in the index, renamed in the working tree or    *)
(* modified in the index, else skipped                                     *)
PolicyCategory(fs) ==
    CASE "WT_NEW" \in fs -> "New"
      [] "WT_NEW" \notin fs /\ "WT_MODIFIED" \in fs -> "Modified"
      [] "WT_NEW" \notin fs /\ "WT_MODIFIED" \notin fs
         /\ fs \cap {"INDEX_NEW", "WT_RENAMED", "INDEX_MODIFIED"} # {} -> "Added"
      [] OTHER -> "Skipped"

PolicyColor(category) ==
    CASE category = "New" -> "Red"
      [] category = "Modified" -> "Yellow"
      [] category = "Added" -> "Green"

(* C11: for every set of flags without the typechange flag, the entry is   *)
(* listed as New (red), Modified (yellow) or Added (green) by the first    *)
(* matching rule of the policy, or is skipped: then it is in neither       *)
(* vector.                                                                 *)
C11_ClassificationFollowsPolicy ==
    (loop_started /\ Len(statuses) = 1 /\ statuses[1].path # None
        /\ "WT_TYPECHANGE" \notin statuses[1].status) =>
        LET cat == PolicyCategory(statuses[1].status) IN
        IF cat = "Skipped"
        THEN files = <<>> /\ items = <<Placeholder>>
        ELSE /\ files = <<statuses[1].path[1]>>
             /\ Len(items) = 1
             /\ items[1][1] = cat
             /\ items[1][2] = PolicyColor(cat)

(* An entry that is new and modified in the working tree and deleted in    *)
(* the index has been listed                                               *)
C11_Witness ==
    /\ pc = "draw"
    /\ Len(statuses) = 1
    /\ statuses[1].status = {"WT_NEW", "WT_MODIFIED", "INDEX_DELETED"}
    /\ Len(items) = 1
    /\ items[1][1] = "New"

Listed(entries) == SelectSeq(entries, LAMBDA e : ~Unclassifiable(e))

(* C12: when an entry is classified, items and files have the same length, *)
(* row i shows the path files[i], both follow the order of the             *)
(* enumeration without the skipped entries, and show_file_diff is called   *)
(* with the path of the selected row.                                      *)
C12_RowsPairedWithPaths ==
    (loop_started /\ Listed(statuses) # <<>>) =>
        /\ Len(items) = Len(files)
        /\ Len(files) = Len(Listed(statuses))
        /\ \A i \in 1..Len(files) :
              /\ items[i][4] = files[i]
              /\ files[i] = Listed(statuses)[i].path[1]
        /\ last_call # <<>> =>
              /\ last_call[1] \in 0..(Len(items) - 1)
              /\ last_call[4] = items[last_call[1] + 1][4]

(* The first of two entries was skipped, and the diff of the only row was  *)
(* computed                                                                *)
C12_Witness ==
    /\ pc = "draw"
    /\ Len(statuses) = 2
    /\ Unclassifiable(statuses[1])
    /\ files = <<PathNames[2]>>
    /\ last_call # <<>>
    /\ last_call[4] = PathNames[2]

(* C13, its first part: once q or Esc has been read, no frame is drawn, no *)
(* diff is computed and no input is read any more.                         *)
C13_QuitEndsLoop ==
    [][/\ (pc = "read" /\ event' \in QuitKeys) => pc' = "disable_raw"
       /\ pc \in {"disable_raw", "leave_alt", "done"} =>
             /\ pc' \in {"disable_raw", "leave_alt", "done"}
             /\ UNCHANGED <<diff_calls, event, current_diff>>]_vars

(* C13: when status has returned after q or Esc was read, the terminal is  *)
(* neither in raw mode nor on the alternate screen.                        *)
C13_QuitRestoresTerminal ==
    (pc = "done" /\ event \in QuitKeys) => (~raw_mode /\ ~alt_screen)

AtLoopEntry == pc = "loop" /\ loop_started /\ event = "none"

(* C14 as stated: at loop entry the selection is 0 for a non-empty file    *)
(* list and None for an empty one, the focus is on the list panel, the     *)
(* scroll offset is 0, the diff is empty and no index has been computed.   *)
C14_SelectionNoneWhenEmpty ==
    AtLoopEntry =>
        /\ selected = (IF files # <<>> THEN Some(0) ELSE None)
        /\ focus = "Left"
        /\ diff_scroll = 0
        /\ current_diff = <<>>
        /\ last_selected = None

(* C14 amended: at loop entry the selection is 0 whether the file list is  *)
(* empty or not (for an empty list it is the placeholder row), the focus   *)
(* is on the list panel, the scroll offset is 0, the diff is empty and no  *)
(* index has been computed.                                                *)
C14_SelectionZeroAtLoopEntry ==
    AtLoopEntry =>
        /\ selected = Some(0)
        /\ focus = "Left"
        /\ diff_scroll = 0
        /\ current_diff = <<>>
        /\ last_selected = None

(* The loop is entered with an empty file list *)
C14_Witness ==
    /\ AtLoopEntry
    /\ files = <<>>
    /\ items = <<Placeholder>>
    /\ selected = Some(0)

(* C15 as stated: for a non-empty file list, Home or g sets the selection  *)
(* to 0 and End or G sets it to len(files) - 1.                            *)
C15_HomeEndJump ==
    [][(files # <<>> /\ pc = "read") =>
          /\ event' \in {"Home", "g"} => selected' = Some(0)
          /\ event' \in {"End", "G"} => selected' = Some(Len(files) - 1)]_vars

(* C15 amended: Home, g, End and G have no handler: for a non-empty file   *)
(* list they leave the selection as it is and the loop goes on.            *)
C15_HomeEndUnbound ==
    [][(files # <<>> /\ pc = "read" /\ event' \in {"Home", "g", "End", "G"}) =>
          /\ selected' = selected
          /\ pc' = "loop"]_vars

(* End was read with the first of two files selected, which still is *)
C15_Witness ==
    /\ pc = "draw"
    /\ event = "End"
    /\ Len(files) = 2
    /\ selected = Some(0)
    /\ last_selected = Some(0)

Untracked(w) == w.status.ok /\ "WT_NEW" \in w.status.val

(* C16: for a path whose status has the untracked flag, whatever the diff  *)
(* engine would answer, the result is the header "New file: {path}"        *)
(* followed by one green line "+{line}" per line of the file, in file      *)
(* order: n + 1 lines for a file of n lines.  If the file cannot be read   *)
(* the result is the error of the read.                                    *)
C16_NewFileDump ==
    (last_call # <<>> /\ Untracked(last_call[5])) =>
        LET w == last_call[5]
            lines == last_call[3]
            content == w.content.val
        IN  IF w.content.ok
            THEN /\ last_call[2]
                 /\ Len(lines) = Len(content) + 1
                 /\ lines[1] = <<"Blue", <<"New file: ", last_call[4], "\n">>>>
                 /\ \A i \in 1..Len(content) :
                       lines[i + 1] = <<"Green", <<"+", content[i], "\n">>>>
            ELSE /\ ~last_call[2]
                 /\ lines = <<<<"None", <<"Error: ", w.content.err>>>>>>

(* The diff of an untracked file of two different lines was computed while *)
(* the diff engine would have failed                                       *)
C16_Witness ==
    /\ pc = "draw"
    /\ last_call # <<>>
    /\ Untracked(last_call[5])
    /\ last_call[5].content.ok
    /\ last_call[5].content.val = <<"y", "x">>
    /\ ~last_call[5].patch.ok
    /\ Len(current_diff) = 3

(* The empty file: the header alone *)
C16_WitnessEmptyFile ==
    /\ pc = "draw"
    /\ last_call # <<>>
    /\ Untracked(last_call[5])
    /\ last_call[5].content.ok
    /\ last_call[5].content.val = <<>>
    /\ Len(current_diff) = 1

RoleColor(origin) ==
    CASE origin = "+" -> "Green"
      [] origin = "-" -> "Red"
      [] origin = "F" -> "Blue"
      [] OTHER -> "None"

Tracked(w) == w.status.ok /\ "WT_NEW" \notin w.status.val /\ w.patch.ok

(* C17: for a path that is not untracked, the result has one line per line *)
(* of the diff engine's stream, in the order of the stream, colored by the *)
(* origin marker ("+" green, "-" red, "F" blue, anything else plain); an   *)
(* empty stream gives the single line "No changes", so the result is never *)
(* empty.                                                                  *)
C17_PatchMappedInOrder ==
    (last_call # <<>> /\ Tracked(last_call[5])) =>
        LET stream == last_call[5].patch.val
            lines == last_call[3]
        IN  /\ last_call[2]
            /\ lines # <<>>
            /\ stream = <<>> => lines = <<<<"None", <<"No changes">>>>>>
            /\ stream # <<>> =>
                  /\ Len(lines) = Len(stream)
                  /\ \A i \in 1..Len(stream) :
                        /\ lines[i][1] = RoleColor(stream[i][1])
                        /\ stream[i][2] # InvalidUtf8 => lines[i][2] = <<stream[i][2]>>

(* The diff of a one-line change from "foo" to "bar" was computed: one     *)
(* removed line, then one added line                                       *)
C17_Witness ==
    /\ pc = "draw"
    /\ last_call # <<>>
    /\ Tracked(last_call[5])
    /\ last_call[5].patch.val = OneLineChange
    /\ Len(current_diff) = 4
    /\ current_diff[3] = <<"Red", <<"foo">>>>
    /\ current_diff[4] = <<"Green", <<"bar">>>>

(* C18: the iteration after an input event that changed the selection      *)
(* draws with diff_scroll = 0; tab, a list move, an unrecognised key and a *)
(* non-key event leave diff_scroll as it is, and so does the iteration     *)
(* after an event that left the selection unchanged.                       *)
C18_ScrollResetOnSelectionChange ==
    [][/\ (pc = "read" /\ pc' = "loop" /\ selected' # selected) =>
             last_selected' # selected'
       /\ (pc = "loop" /\ selected # last_selected) =>
             (pc' = "draw" /\ diff_scroll' = 0)
       /\ (pc = "loop" /\ selected = last_selected) =>
             (pc' = "draw" /\ diff_scroll' = diff_scroll)
       /\ pc = "draw" => diff_scroll' = diff_scroll
       /\ Pressed(TabKeys \cup OtherKeys \cup NonKeyEvents) =>
             diff_scroll' = diff_scroll
       /\ (Pressed(NavKeys) /\ focus = "Left") => diff_scroll' = diff_scroll]_vars

(* After a move in the list the frame is about to be drawn with offset 0 *)
C18_Witness ==
    /\ pc = "draw"
    /\ event \in NavKeys
    /\ focus = "Left"
    /\ sel_changes = 3
    /\ diff_calls = 4
    /\ diff_scroll = 0

(* After tab to the list and back the frame is about to be drawn with the  *)
(* offset the scrolling had reached                                        *)
C18_WitnessKept ==
    /\ pc = "draw"
    /\ event \in TabKeys
    /\ focus = "Right"
    /\ diff_scroll = MaxScroll
    /\ files # <<>>

(* C19: tab toggles the focus and leaves selected, diff_scroll,            *)
(* current_diff and last_selected as they are; the iteration that follows  *)
(* changes none of them either, so two tabs in a row return to the state   *)
(* before them.  In the diff panel up/k and down/j leave the selection     *)
(* unchanged.                                                              *)
C19_TabTogglesFocusOnly ==
    [][/\ Pressed(TabKeys) =>
             /\ focus' = (IF focus = "Left" THEN "Right" ELSE "Left")
             /\ UNCHANGED <<selected, diff_scroll, current_diff, last_selected,
                            items, files>>
       /\ (pc \in {"loop", "draw"} /\ event \in TabKeys /\ pc' # "done") =>
             UNCHANGED <<selected, focus, diff_scroll, current_diff, last_selected,
                         items, files, event>>
       /\ (Pressed(NavKeys) /\ focus = "Right") => selected' = selected]_vars

(* A tab has moved the focus back to the list panel of a scrolled diff *)
C19_Witness ==
    /\ pc = "loop"
    /\ event \in TabKeys
    /\ focus = "Left"
    /\ diff_scroll > 0
    /\ selected = Some(1)

(* C20: a key without a handler, and an event that is not a key, leave the *)
(* session state as it is and do not end the loop; the iteration that      *)
(* follows computes no diff and draws the same state.                      *)
C20_UnboundInputIsNoOp ==
    [][/\ (pc = "read" /\ event' \in OtherKeys \cup NonKeyEvents) =>
             /\ pc' = "loop"
             /\ result' = "running"
             /\ UNCHANGED <<selected, focus, diff_scroll, current_diff,
                            last_selected, items, files, diff_calls>>
       /\ (pc = "loop" /\ event \in OtherKeys \cup NonKeyEvents) =>
             /\ pc' = "draw"
             /\ UNCHANGED <<selected, focus, diff_scroll, current_diff,
                            last_selected, items, files, diff_calls>>]_vars

(* Enter was read in the diff panel of a scrolled diff *)
C20_Witness ==
    /\ pc = "draw"
    /\ event = "Enter"
    /\ focus = "Right"
    /\ diff_scroll > 0
    /\ selected = Some(1)

====
